---- MODULE Spec2Model ----
(***************************************************************************)
(* A model of ppps/ms-utils: the Page filename grammar and Page entity     *)
(* (src/msutils/page.py) and the edition store resolution and directory    *)
(* scanning (src/msutils/edition.py).                                      *)
(*                                                                         *)
(* Text is modelled as a sequence of one-character strings, so that the    *)
(* regular expression, int(), strptime() and the format templates are      *)
(* computed character by character.                                        *)
(***************************************************************************)
EXTENDS Integers, Sequences, FiniteSets, TLC

VARIABLES
    input,      \* SpecPage: the path handed to Page(...): [dir, name]
    obj,        \* SpecPage: what Page(input) gave: a Page, an error, or None
    ename,      \* SpecPage: what obj.external_name() returned, or None
    reparsed,   \* SpecPage: what Page(Path(ename)) gave, or None
    pa, pb, pc, \* SpecOrder: three constructed Pages (or None)
    fs,         \* SpecStores/SpecScan: the set of directories that exist
    files,      \* SpecScan: the set of files that exist, each a path
    call,       \* SpecStores/SpecScan: the last library call made
    result,     \* SpecStores/SpecScan: what that call returned or raised
    warned,     \* SpecScan: whether the last call logged a date warning
    server      \* SpecUpload: the connection made and what the far end received

vars == <<input, obj, ename, reparsed, pa, pb, pc, fs, files, call, result, warned, server>>

None == [kind |-> "none"]

(***************************************************************************)
(* Characters                                                              *)
(***************************************************************************)
DigitChars == <<"0", "1", "2", "3", "4", "5", "6", "7", "8", "9">>
UpperChars == <<"A", "B", "C", "D", "E", "F", "G", "H", "I", "J", "K", "L", "M",
                "N", "O", "P", "Q", "R", "S", "T", "U", "V", "W", "X", "Y", "Z">>
LowerChars == <<"a", "b", "c", "d", "e", "f", "g", "h", "i", "j", "k", "l", "m",
                "n", "o", "p", "q", "r", "s", "t", "u", "v", "w", "x", "y", "z">>

Range(seq) == {seq[i] : i \in 1..Len(seq)}
IndexOf(seq, c) == CHOOSE i \in 1..Len(seq) : seq[i] = c

IsDigit(c) == c \in Range(DigitChars)
IsUpper(c) == c \in Range(UpperChars)
IsLower(c) == c \in Range(LowerChars)
IsLetter(c) == IsUpper(c) \/ IsLower(c)
\* the character class [-_ ] of the grammar
IsSep(c) == c \in {"-", "_", " "}

\* ord(c): the code point, which is what str comparison compares
Ord(c) ==
    IF IsDigit(c) THEN 47 + IndexOf(DigitChars, c)
    ELSE IF IsUpper(c) THEN 64 + IndexOf(UpperChars, c)
    ELSE IF IsLower(c) THEN 96 + IndexOf(LowerChars, c)
    ELSE CASE c = "\n" -> 10
           [] c = " " -> 32
           [] c = "-" -> 45
           [] c = "." -> 46
           [] c = "/" -> 47
           [] c = "_" -> 95

\* str.lower() on one character
LowerChar(c) == IF IsUpper(c) THEN LowerChars[IndexOf(UpperChars, c)] ELSE c
\* str.lower()
Lower(s) == [i \in 1..Len(s) |-> LowerChar(s[i])]

\* int(s) for a run of ASCII digits
RECURSIVE ToInt(_)
ToInt(s) ==
    IF Len(s) = 0 THEN 0
    ELSE 10 * ToInt(SubSeq(s, 1, Len(s) - 1)) + (IndexOf(DigitChars, s[Len(s)]) - 1)

\* str(n) for n >= 0
RECURSIVE ToStr(_)
ToStr(n) ==
    IF n < 10 THEN <<DigitChars[n + 1]>>
    ELSE ToStr(n \div 10) \o <<DigitChars[(n % 10) + 1]>>

\* format(n, '0<w>'): zero-padded to at least w characters
RECURSIVE ZeroPad(_, _)
ZeroPad(s, w) == IF Len(s) >= w THEN s ELSE ZeroPad(<<"0">> \o s, w)

FormatInt(n, w) == ZeroPad(ToStr(n), w)

\* s.replace(c, '')
RECURSIVE Remove(_, _)
Remove(s, c) ==
    IF Len(s) = 0 THEN <<>>
    ELSE IF Head(s) = c THEN Remove(Tail(s), c)
    ELSE <<Head(s)>> \o Remove(Tail(s), c)

\* '-'.join(parts)
RECURSIVE Join(_, _)
Join(parts, c) ==
    IF Len(parts) = 0 THEN <<>>
    ELSE IF Len(parts) = 1 THEN parts[1]
    ELSE parts[1] \o <<c>> \o Join(Tail(parts), c)

\* s < t for two str: lexicographic by code point, a proper prefix first
RECURSIVE StrLessFrom(_, _, _)
StrLessFrom(s, t, i) ==
    IF i > Len(s) THEN i <= Len(t)
    ELSE IF i > Len(t) THEN FALSE
    ELSE IF s[i] = t[i] THEN StrLessFrom(s, t, i + 1)
    ELSE Ord(s[i]) < Ord(t[i])

StrLess(s, t) == StrLessFrom(s, t, 1)

\* s < t for two tuples of int: lexicographic, a proper prefix first
RECURSIVE IntsLessFrom(_, _, _)
IntsLessFrom(s, t, i) ==
    IF i > Len(s) THEN i <= Len(t)
    ELSE IF i > Len(t) THEN FALSE
    ELSE IF s[i] = t[i] THEN IntsLessFrom(s, t, i + 1)
    ELSE s[i] < t[i]

IntsLess(s, t) == IntsLessFrom(s, t, 1)

\* the character at position i, or "" past either end
At(s, i) == IF i \in 1..Len(s) THEN s[i] ELSE ""

(***************************************************************************)
(* Calendar dates (datetime.date) and datetime.strptime                    *)
(***************************************************************************)
IsLeap(y) == (y % 4 = 0) /\ ((y % 100 # 0) \/ (y % 400 = 0))

DaysInMonth(y, m) ==
    IF m = 2 THEN (IF IsLeap(y) THEN 29 ELSE 28)
    ELSE IF m \in {4, 6, 9, 11} THEN 30 ELSE 31

Date(y, m, d) == [kind |-> "date", year |-> y, month |-> m, day |-> d]

\* a < b for two dates
DateLess(a, b) ==
    \/ a.year < b.year
    \/ a.year = b.year /\ a.month < b.month
    \/ a.year = b.year /\ a.month = b.month /\ a.day < b.day

\* date.toordinal(): days since 0001-01-01, that day being 1
RECURSIVE DaysBeforeMonth(_, _)
DaysBeforeMonth(y, m) ==
    IF m = 1 THEN 0 ELSE DaysBeforeMonth(y, m - 1) + DaysInMonth(y, m - 1)

ToOrdinal(dt) ==
    LET y == dt.year - 1
    IN  y * 365 + (y \div 4) - (y \div 100) + (y \div 400)
        + DaysBeforeMonth(dt.year, dt.month) + dt.day

\* date.weekday(): Monday is 0
Weekday(dt) == (ToOrdinal(dt) + 6) % 7

ValueError(text, carries) == [kind |-> "ValueError", text |-> text, carries |-> carries]

\* the %d directive of strptime: 3[0-1] | [1-2]\d | 0[1-9] | [1-9]
DayDirective(s, i, n) ==
    IF n = 2
    THEN \/ At(s, i) = "3" /\ At(s, i + 1) \in {"0", "1"}
         \/ At(s, i) \in {"1", "2"} /\ IsDigit(At(s, i + 1))
         \/ At(s, i) = "0" /\ IsDigit(At(s, i + 1)) /\ At(s, i + 1) # "0"
    ELSE IsDigit(At(s, i)) /\ At(s, i) # "0"

\* the %m directive of strptime: 1[0-2] | 0[1-9] | [1-9]
MonthDirective(s, i, n) ==
    IF n = 2
    THEN \/ At(s, i) = "1" /\ At(s, i + 1) \in {"0", "1", "2"}
         \/ At(s, i) = "0" /\ IsDigit(At(s, i + 1)) /\ At(s, i + 1) # "0"
    ELSE IsDigit(At(s, i)) /\ At(s, i) # "0"

\* a two-digit year always taken for one of the twentieth century
CenturyNineteenHundred(yy) == 1900 + yy

\* the pivot strptime applies to %y: 69..99 are 19xx, 00..68 are 20xx
Century(yy) == IF yy <= 68 THEN 2000 + yy ELSE 1900 + yy

\* datetime.strptime(s, '%d%m%y' or '%d%m%Y').date(), yw the width of the
\* year directive; s is a run of digits.  The directives are tried as the
\* compiled pattern tries them: two-digit alternatives before one-digit.
Strptime(s, yw) ==
    LET fits == {w \in {<<2, 2>>, <<2, 1>>, <<1, 2>>, <<1, 1>>} :
                    /\ DayDirective(s, 1, w[1])
                    /\ MonthDirective(s, 1 + w[1], w[2])
                    /\ w[1] + w[2] + yw <= Len(s)}
    IN  IF fits = {} THEN ValueError("time data does not match format", s)
        ELSE
          LET w  == CHOOSE v \in fits : \A u \in fits :
                        v[1] > u[1] \/ (v[1] = u[1] /\ v[2] >= u[2])
              e  == w[1] + w[2] + yw
              dd == ToInt(SubSeq(s, 1, w[1]))
              mm == ToInt(SubSeq(s, w[1] + 1, w[1] + w[2]))
              yr == ToInt(SubSeq(s, w[1] + w[2] + 1, e))
              yy == IF yw = 2 THEN Century(yr) ELSE yr
          IN  IF e # Len(s)
              THEN ValueError("unconverted data remains", SubSeq(s, e + 1, Len(s)))
              ELSE IF yy < 1 THEN ValueError("year is out of range", <<>>)
              ELSE IF dd > DaysInMonth(yy, mm)
              THEN ValueError("day is out of range for month", <<>>)
              ELSE Date(yy, mm, dd)

(***************************************************************************)
(* Page._page_name_regex, matched with re.VERBOSE | re.IGNORECASE          *)
(***************************************************************************)
\* the character classes of the pattern: \d, [-_ ] and \D
InClass(c, class) ==
    CASE class = "digit"    -> IsDigit(c)
      [] class = "sep"      -> IsSep(c)
      [] class = "nondigit" -> ~IsDigit(c)

\* the length of the longest run of characters of a class from position i
RunLen(s, i, class) ==
    CHOOSE n \in 0..Len(s) :
        /\ \A k \in 0..(n - 1) : i + k <= Len(s) /\ InClass(s[i + k], class)
        /\ ~(i + n <= Len(s) /\ InClass(s[i + n], class))

\* $ : the end of the string, or just before a newline that ends it
AtEnd(s, i) == i = Len(s) + 1 \/ (i = Len(s) /\ s[i] = "\n")

\* the kinds (?P<type> indd | pdf)
PageTypes == {<<"i", "n", "d", "d">>, <<"p", "d", "f">>}

\* \. (?P<type> indd | pdf ) $  at position i, letters compared ignoring case
TypeAt(s, i) ==
    {ty \in PageTypes :
        /\ At(s, i) = "."
        /\ i + Len(ty) <= Len(s)
        /\ Lower(SubSeq(s, i + 1, i + Len(ty))) = ty
        /\ AtEnd(s, i + Len(ty) + 1)}

\* a date group that also takes a run of five digits
DateAlternativesWithFive ==
    << <<"d", "d", "d", "d", "d">>,
       <<"d", "d", "d", "d", "d", "d">>,
       <<"d", "d", "d", "d", "d", "d", "d", "d">>,
       <<"d", "d", "-", "d", "d", "-", "d", "d">>,
       <<"d", "d", "-", "d", "d", "-", "d", "d", "d", "d">> >>

\* the four alternatives of (?P<date> ...), in the order they are tried, as
\* patterns: "d" is \d, "-" the hyphen
DateAlternatives ==
    << <<"d", "d", "d", "d", "d", "d">>,
       <<"d", "d", "d", "d", "d", "d", "d", "d">>,
       <<"d", "d", "-", "d", "d", "-", "d", "d">>,
       <<"d", "d", "-", "d", "d", "-", "d", "d", "d", "d">> >>

AlternativeAt(s, i, k) ==
    LET pat == DateAlternatives[k]
    IN  \A j \in 1..Len(pat) :
            IF pat[j] = "d" THEN IsDigit(At(s, i + j - 1)) ELSE At(s, i + j - 1) = "-"

\* optional prefix: [A-Z]{0,1}, which IGNORECASE widens to any ASCII letter
PrefixLens(s) == {0} \cup (IF IsLetter(At(s, 1)) THEN {1} ELSE {})

\* (?: - (?P<second_page> \d+) )? at position i: 0 when absent, else its length
SecondLens(s, i) ==
    {0} \cup (IF At(s, i) = "-" THEN {1 + j : j \in 1..RunLen(s, i + 1, "digit")} ELSE {})

\* [-_ ]* (?P<section> \D+? ) [-_ ]* (?P<date> ...) \. (?P<type> ...) $
\* from position q: every way <<a, b, c, k>> of matching it, a and c the
\* lengths of the separator runs, b of the section, k the date alternative
MiddleMatches(s, q) ==
    UNION { UNION { UNION {
        {<<a, b, c, k>> : k \in {k \in 1..Len(DateAlternatives) :
              /\ AlternativeAt(s, q + a + b + c, k)
              /\ TypeAt(s, q + a + b + c + Len(DateAlternatives[k])) # {}}}
        : c \in 0..RunLen(s, q + a + b, "sep") }
        : b \in 1..RunLen(s, q + a, "nondigit") }
        : a \in 0..RunLen(s, q, "sep") }

\* every way <<p, f, g, a, b, c, k>> of matching the whole pattern: p the
\* length of the prefix, f of the first page number, g of the second-page group
AllMatches(s) ==
    UNION { UNION { UNION {
        {<<p, f, g>> \o m : m \in MiddleMatches(s, p + f + g + 1)}
        : g \in SecondLens(s, p + f + 1) }
        : f \in 1..RunLen(s, p + 1, "digit") }
        : p \in PrefixLens(s) }

\* the order of a matcher whose section group is greedy: \D+ for \D+?
PriorityGreedySection(m) ==
    <<0 - m[1], 0 - m[2], 0 - m[3], 0 - m[4], 0 - m[5], 0 - m[6], m[7]>>

\* the order in which the backtracking matcher reaches the matches: greedy
\* parts longest first, the lazy section shortest first, alternatives in order
Priority(m) == <<0 - m[1], 0 - m[2], 0 - m[3], 0 - m[4], m[5], 0 - m[6], m[7]>>

\* the one element of a singleton set: {F(x) : x \in {e}} evaluates e once
Only(S) == CHOOSE x \in S : TRUE

\* the match the backtracking matcher reaches first
FirstMatch(all) ==
    CHOOSE x \in all : \A y \in all : x = y \/ IntsLess(Priority(x), Priority(y))

\* the named groups of match m of s
Groups(s, m) ==
    [kind        |-> "match",
     prefix      |-> SubSeq(s, 1, m[1]),
     first_page  |-> SubSeq(s, m[1] + 1, m[1] + m[2]),
     \* None is written <<>>: a second_page that took part holds a digit
     second_page |-> IF m[3] = 0 THEN <<>>
                     ELSE SubSeq(s, m[1] + m[2] + 2, m[1] + m[2] + m[3]),
     section     |-> SubSeq(s, m[1] + m[2] + m[3] + m[4] + 1,
                            m[1] + m[2] + m[3] + m[4] + m[5]),
     date        |-> SubSeq(s, m[1] + m[2] + m[3] + m[4] + m[5] + m[6] + 1,
                            m[1] + m[2] + m[3] + m[4] + m[5] + m[6]
                                + Len(DateAlternatives[m[7]])),
     \* the type runs from after the dot to the end, less a final newline
     type        |-> SubSeq(s, m[1] + m[2] + m[3] + m[4] + m[5] + m[6]
                                + Len(DateAlternatives[m[7]]) + 2,
                            IF s[Len(s)] = "\n" THEN Len(s) - 1 ELSE Len(s))]

\* _page_name_regex.match(name): the groups of the first match, or None
RegexMatch(s) ==
    Only({IF all = {} THEN None ELSE Groups(s, FirstMatch(all)) : all \in {AllMatches(s)}})

(***************************************************************************)
(* Page                                                                    *)
(***************************************************************************)
\* a path is a directory and a file name; Path.name is the file name.  A
\* directory is a sequence of components separated by "/" tokens.
Path(dir, name) == [dir |-> dir, name |-> name]

\* the home directory Path.expanduser() puts in place of a leading ~
HomeDir == <<"/", "Users", "/", "production">>

\* Path.expanduser() on a directory
ExpandUserDir(dir) ==
    IF Len(dir) > 0 /\ Head(dir) = "~" THEN HomeDir \o Tail(dir) ELSE dir

\* Path.expanduser()
ExpandUser(path) == Path(ExpandUserDir(path.dir), path.name)

\* the rest of Page.__init__ once the name has matched and the date token
\* has been decoded to date
PageOf(page_path, regex_match, date) ==
    IF date.kind # "date" THEN date
    ELSE [kind    |-> "Page",
          path    |-> ExpandUser(page_path),
          pages   |-> IF regex_match.second_page = <<>>
                      THEN <<ToInt(regex_match.first_page)>>
                      ELSE <<ToInt(regex_match.first_page),
                             ToInt(regex_match.second_page)>>,
          date    |-> date,
          prefix  |-> regex_match.prefix,
          section |-> regex_match.section,
          type    |-> Lower(regex_match.type)]

\* the choice of date_format by the length of date_match, and
\* datetime.strptime(date_match, date_format).date().  With any other length
\* neither branch binds date_format and its use raises UnboundLocalError.
DecodeDate(date_match) ==
    IF Len(date_match) = 6 THEN Strptime(date_match, 2)
    ELSE IF Len(date_match) = 8 THEN Strptime(date_match, 4)
    ELSE [kind |-> "UnboundLocalError", text |-> "date_format", carries |-> <<>>]

\* Page.__init__ raising on a name that does not match with the whole path
\* in the message
PageNamingWholePath(page_path) ==
    Only({IF regex_match = None
          THEN ValueError("is an invalid filename", page_path.dir \o <<"/">> \o page_path.name)
          ELSE Only({PageOf(page_path, regex_match, date) :
                        date \in {Only({DecodeDate(date_match) :
                            date_match \in {Remove(regex_match.date, "-")}})}})
          : regex_match \in {RegexMatch(page_path.name)}})

\* Page.__init__(page_path): the Page, or the ValueError it raises
Page(page_path) ==
    Only({IF regex_match = None
          THEN ValueError("is an invalid filename", page_path.name)
          ELSE Only({PageOf(page_path, regex_match, date) :
                        date \in {Only({DecodeDate(date_match) :
                            date_match \in {Remove(regex_match.date, "-")}})}})
          : regex_match \in {RegexMatch(page_path.name)}})

\* _comparison_keys as the docstring of __eq__ describes it: pages[0] only
ComparisonKeysLeftPage(page) ==
    <<page.date, page.type, page.prefix, <<page.pages[1]>>, Lower(page.section)>>

\* Page._comparison_keys(page)
ComparisonKeys(page) ==
    <<page.date, page.type, page.prefix, page.pages, Lower(page.section)>>

\* tuple < tuple on two comparison keys: the first differing component decides
KeysLess(k, l) ==
    IF k[1] # l[1] THEN DateLess(k[1], l[1])
    ELSE IF k[2] # l[2] THEN StrLess(k[2], l[2])
    ELSE IF k[3] # l[3] THEN StrLess(k[3], l[3])
    ELSE IF k[4] # l[4] THEN IntsLess(k[4], l[4])
    ELSE StrLess(k[5], l[5])

\* Page.__eq__, __ne__, __lt__, __gt__, __le__, __ge__
Eq(a, b) == ComparisonKeys(a) = ComparisonKeys(b)
Ne(a, b) == ~Eq(a, b)
Lt(a, b) == KeysLess(ComparisonKeys(a), ComparisonKeys(b))
\* __gt__ written as the negation of __lt__
GtAsNotLt(a, b) == ~KeysLess(ComparisonKeys(a), ComparisonKeys(b))
Gt(a, b) == KeysLess(ComparisonKeys(b), ComparisonKeys(a))
Le(a, b) == Lt(a, b) \/ Eq(a, b)
Ge(a, b) == Gt(a, b) \/ Eq(a, b)

\* format(date, '%Y_%m_%d') for a year of four digits
FormatDateUnderscored(dt) ==
    FormatInt(dt.year, 4) \o <<"_">> \o FormatInt(dt.month, 2) \o <<"_">>
        \o FormatInt(dt.day, 2)

\* external_name() with the one template that always writes the prefix part
ExternalNameOneTemplate(page) ==
    <<"M", "S", "_">> \o page.prefix \o <<"_">>
        \o FormatDateUnderscored(page.date) \o <<"_">>
        \o Join([i \in 1..Len(page.pages) |-> FormatInt(page.pages[i], 3)], "-")
        \o <<".">> \o page.type

\* Page.external_name()
ExternalName(page) ==
    LET num_str == Join([i \in 1..Len(page.pages) |-> FormatInt(page.pages[i], 3)], "-")
    IN  IF page.prefix = <<>>
        THEN <<"M", "S", "_">> \o FormatDateUnderscored(page.date) \o <<"_">>
                 \o num_str \o <<".">> \o page.type
        ELSE <<"M", "S", "_">> \o page.prefix \o <<"_">>
                 \o FormatDateUnderscored(page.date) \o <<"_">>
                 \o num_str \o <<".">> \o page.type

(***************************************************************************)
(* SpecPage: one Page is constructed from a file name, formatted with      *)
(* external_name(), and the external name is handed to Page again.         *)
(***************************************************************************)
\* the largest page number the generated names use
MaxPage == 3

\* page-number parts: one number, or a spread n-(n+1); 12 and 1000 are there
\* for numbers of more than one and more than three digits
PageParts ==
    {ToStr(n) : n \in (0..MaxPage) \cup {12, 1000}}
        \cup {ToStr(n) \o <<"-">> \o ToStr(n + 1) : n \in {n \in 0..MaxPage : n % 2 = 0}}

PrefixParts == {<<>>, <<"A">>, <<"w">>, <<"A", "B">>}

\* what stands between the page numbers and the date token
MiddleParts ==
    { <<"_", "F", "r", "o", "n", "t", "_">>,
      <<"-", "F", "E", "A", "T", "-">>,
      <<" ", "A", "r", "t", "s", "_", " ">>,
      <<"_", "a", "d", "_", "H", "o", "m", "e", "_">>,
      <<"_", "f", "i", "l", "m">>,
      <<"_", "_">>,
      <<"_", "a", "d", "2", "_">>,
      <<"_", "x", "-", "1", "2", "-">>,
      <<"_", "x", "_", "1">>,
      <<"_", "-", " ", "T", "v", "-", "x", " ", "_">>,
      <<>> }

\* date tokens: the four accepted spellings, dates that are not in the
\* calendar, and runs of 5 and of 7 digits
DateParts ==
    { <<"0", "4", "0", "5", "1", "6">>,
      <<"0", "4", "0", "5", "2", "0", "1", "6">>,
      <<"0", "4", "-", "0", "5", "-", "1", "6">>,
      <<"0", "4", "-", "0", "5", "-", "2", "0", "1", "6">>,
      <<"3", "1", "1", "2", "6", "9">>,
      <<"2", "9", "0", "2", "2", "0", "0", "0">>,
      <<"3", "1", "0", "4", "1", "6">>,
      <<"2", "9", "-", "0", "2", "-", "0", "3">>,
      <<"2", "9", "0", "2", "1", "9", "0", "0">>,
      <<"0", "0", "0", "5", "1", "6">>,
      <<"0", "4", "1", "3", "1", "6">>,
      <<"2", "6", "3", "1", "4">>,
      <<"0", "4", "0", "0", "5", "1", "6">>,
      <<"0", "4", "-", "0", "5", "-", "0", "1", "6">>,
      <<"0", "1", "0", "1", "0", "0">> }

\* what follows the date token
SuffixParts ==
    { <<".", "i", "n", "d", "d">>,
      <<".", "p", "d", "f">>,
      <<".", "P", "D", "F">>,
      <<".", "t", "x", "t">>,
      <<".", "p", "d", "f", "\n">>,
      <<".", "p", "d", "f", "x">>,
      <<"p", "d", "f">> }

PageNames ==
    {pre \o num \o mid \o dat \o suf :
        pre \in PrefixParts, num \in PageParts, mid \in MiddleParts,
        dat \in DateParts, suf \in SuffixParts}

PageDirs == {<<"~", "/", "pages">>}

Str_(s) == [kind |-> "str", value |-> s]

ScanIdle ==
    /\ fs = {} /\ files = {} /\ call = None /\ result = None /\ warned = FALSE

OrderIdle == pa = None /\ pb = None /\ pc = None

UploadIdle == server = None

PageIdle == input = None /\ obj = None /\ ename = None /\ reparsed = None

InitPage ==
    /\ input \in {Path(d, n) : d \in PageDirs, n \in PageNames}
    /\ obj = None /\ ename = None /\ reparsed = None
    /\ OrderIdle /\ ScanIdle /\ UploadIdle

\* obj = Page(input)
Construct ==
    /\ obj = None
    /\ obj' = Page(input)
    /\ UNCHANGED <<input, ename, reparsed, pa, pb, pc, fs, files, call, result, warned, server>>

\* ename = obj.external_name()
CallExternalName ==
    /\ obj.kind = "Page"
    /\ ename = None
    /\ ename' = Str_(ExternalName(obj))
    /\ UNCHANGED <<input, obj, reparsed, pa, pb, pc, fs, files, call, result, warned, server>>

\* reparsed = Page(Path(ename))
Reparse ==
    /\ ename # None
    /\ reparsed = None
    /\ reparsed' = Page(Path(<<>>, ename.value))
    /\ UNCHANGED <<input, obj, ename, pa, pb, pc, fs, files, call, result, warned, server>>

NextPage == Construct \/ CallExternalName \/ Reparse

SpecPage == InitPage /\ [][NextPage]_vars

(***************************************************************************)
(* SpecOrder: three Pages are constructed and compared.                    *)
(***************************************************************************)
\* a file name as the tests build it: prefix, numbers, '_', section, '_',
\* date token, '.', suffix
MakePageName(prefix, nums, section, date, suffix) ==
    prefix \o nums \o <<"_">> \o section \o <<"_">> \o date \o <<".">> \o suffix

May4 == <<"0", "4", "0", "5", "1", "6">>
Front == <<"F", "r", "o", "n", "t">>
Pdf == <<"p", "d", "f">>
DirA == <<"~", "/", "pages">>
DirB == <<"/", "Volumes", "/", "Server", "/", "Pages">>

\* paths that differ from DirA/2_Front_040516.pdf in one part each: the
\* directory and the section's case, the spelling of the date, the section,
\* the page numbers, the prefix, the kind, and the date; then the other two
\* spellings of its date, and two spellings of the last day of 2068
OrderPaths ==
    { Path(DirA, MakePageName(<<>>, <<"2">>, Front, May4, Pdf)),
      Path(DirB, MakePageName(<<>>, <<"2">>, <<"F", "R", "O", "N", "T">>, May4, Pdf)),
      Path(DirA, MakePageName(<<>>, <<"2">>, Front,
                              <<"0", "4", "-", "0", "5", "-", "2", "0", "1", "6">>, Pdf)),
      Path(DirA, MakePageName(<<>>, <<"2">>, <<"Z", "o", "o">>, May4, Pdf)),
      Path(DirA, MakePageName(<<>>, <<"2">>, <<"a", "p", "p", "l", "e">>, May4, Pdf)),
      Path(DirA, MakePageName(<<>>, <<"2", "-", "3">>, Front, May4, Pdf)),
      Path(DirA, MakePageName(<<>>, <<"1", "0">>, Front, May4, Pdf)),
      Path(DirA, MakePageName(<<"A">>, <<"2">>, Front, May4, Pdf)),
      Path(DirA, MakePageName(<<"a">>, <<"2">>, Front, May4, Pdf)),
      Path(DirA, MakePageName(<<>>, <<"2">>, Front, May4, <<"I", "N", "D", "D">>)),
      Path(DirA, MakePageName(<<>>, <<"2">>, Front,
                              <<"0", "5", "0", "5", "1", "6">>, Pdf)),
      Path(DirA, MakePageName(<<>>, <<"2">>, Front,
                              <<"0", "4", "0", "6", "1", "5">>, Pdf)),
      Path(DirA, MakePageName(<<>>, <<"2">>, Front,
                              <<"0", "4", "0", "5", "2", "0", "1", "6">>, Pdf)),
      Path(DirA, MakePageName(<<>>, <<"2">>, Front,
                              <<"0", "4", "-", "0", "5", "-", "1", "6">>, Pdf)),
      Path(DirA, MakePageName(<<>>, <<"2">>, Front,
                              <<"3", "1", "1", "2", "6", "8">>, Pdf)),
      Path(DirA, MakePageName(<<>>, <<"2">>, Front,
                              <<"3", "1", "-", "1", "2", "-", "2", "0", "6", "8">>, Pdf)) }

InitOrder == OrderIdle /\ PageIdle /\ ScanIdle /\ UploadIdle

\* a = Page(path)
NewA(path) ==
    /\ pa = None
    /\ pa' = Page(path)
    /\ UNCHANGED <<input, obj, ename, reparsed, pb, pc, fs, files, call, result, warned, server>>

\* b = Page(path)
NewB(path) ==
    /\ pb = None
    /\ pb' = Page(path)
    /\ UNCHANGED <<input, obj, ename, reparsed, pa, pc, fs, files, call, result, warned, server>>

\* c = Page(path)
NewC(path) ==
    /\ pc = None
    /\ pc' = Page(path)
    /\ UNCHANGED <<input, obj, ename, reparsed, pa, pb, fs, files, call, result, warned, server>>

NextOrder ==
    \/ \E path \in OrderPaths : NewA(path)
    \/ \E path \in OrderPaths : NewB(path)
    \/ \E path \in OrderPaths : NewC(path)

SpecOrder == InitOrder /\ [][NextOrder]_vars

(***************************************************************************)
(* Claims about Page equality and ordering                                 *)
(***************************************************************************)
Built(p) == p.kind = "Page"

PagesBefore(s, t) ==
    \/ s[1] < t[1]
    \/ s[1] = t[1] /\ Len(s) = 1 /\ Len(t) = 2
    \/ s[1] = t[1] /\ Len(s) = 2 /\ Len(t) = 2 /\ s[2] < t[2]

LexBefore(a, b) ==
    \/ ToOrdinal(a.date) < ToOrdinal(b.date)
    \/ /\ a.date = b.date
       /\ \/ StrLess(a.type, b.type)
          \/ /\ a.type = b.type
             /\ \/ StrLess(a.prefix, b.prefix)
                \/ /\ a.prefix = b.prefix
                   /\ \/ PagesBefore(a.pages, b.pages)
                      \/ /\ a.pages = b.pages
                         /\ StrLess(Lower(a.section), Lower(b.section))

Count(S) == Cardinality(S)

\* C5: exactly one of a < b, a == b, a > b holds; < is transitive; a <= b iff
\* (a < b or a == b); a >= b iff (a > b or a == b); and < is the
\* lexicographic order of the key.
C5_StrictTotalOrder ==
    /\ (Built(pa) /\ Built(pb)) =>
          /\ Count({r \in {"lt", "eq", "gt"} :
                       \/ r = "lt" /\ Lt(pa, pb)
                       \/ r = "eq" /\ Eq(pa, pb)
                       \/ r = "gt" /\ Gt(pa, pb)}) = 1
          /\ Le(pa, pb) <=> (Lt(pa, pb) \/ Eq(pa, pb))
          /\ Ge(pa, pb) <=> (Gt(pa, pb) \/ Eq(pa, pb))
          /\ Lt(pa, pb) <=> LexBefore(pa, pb)
          /\ Gt(pa, pb) <=> LexBefore(pb, pa)
    /\ (Built(pa) /\ Built(pb) /\ Built(pc)) =>
          ((Lt(pa, pb) /\ Lt(pb, pc)) => Lt(pa, pc))

\* three Pages in a strict chain, the first two apart only in the second page
C5_Witness ==
    /\ Built(pa) /\ Built(pb) /\ Built(pc)
    /\ Lt(pa, pb) /\ Lt(pb, pc)
    /\ Len(pa.pages) = 1 /\ Len(pb.pages) = 2 /\ pa.pages[1] = pb.pages[1]

(***************************************************************************)
(* Claims about the Page grammar and external_name()                       *)
(***************************************************************************)
\* the decimal digits of n in exactly w places, by arithmetic
Places(n, w) == [i \in 1..w |-> DigitChars[((n \div (10 ^ (w - i))) % 10) + 1]]

\* how many decimal digits n has
NumDigits(n) == CHOOSE w \in 1..10 : n < 10 ^ w /\ (w = 1 \/ n >= 10 ^ (w - 1))

Padded3(n) == Places(n, IF NumDigits(n) < 3 THEN 3 ELSE NumDigits(n))

\* the external name the format describes for a Page
DescribedName(page) ==
    <<"M", "S", "_">>
        \o (IF page.prefix # <<>> THEN page.prefix \o <<"_">> ELSE <<>>)
        \o Places(page.date.year, 4) \o <<"_">> \o Places(page.date.month, 2)
        \o <<"_">> \o Places(page.date.day, 2) \o <<"_">>
        \o (IF Len(page.pages) = 1 THEN Padded3(page.pages[1])
            ELSE Padded3(page.pages[1]) \o <<"-">> \o Padded3(page.pages[2]))
        \o <<".">> \o Lower(page.type)

HasDoubleUnderscore(s) == \E i \in 1..(Len(s) - 1) : s[i] = "_" /\ s[i + 1] = "_"

C7_RoundTrip ==
    (obj.kind = "Page" /\ reparsed # None) =>
        /\ reparsed.kind = "Page"
        /\ reparsed.date = obj.date /\ reparsed.type = obj.type
        /\ reparsed.prefix = obj.prefix /\ reparsed.pages = obj.pages

\* C7 as amended: the external name of every accepted filename is rejected by
\* the Page grammar: parsing it again raises the ValueError of a name that
\* does not match, naming the external name, and gives no Page.
C7_ExternalNameRejected ==
    (obj.kind = "Page" /\ reparsed # None) =>
        reparsed = ValueError("is an invalid filename", ename.value)

\* the external name of a two-page Page with a prefix has been parsed again
C7_Witness ==
    /\ obj.kind = "Page" /\ reparsed # None
    /\ Len(obj.pages) = 2 /\ obj.prefix # <<>>

\* the position of the last dot of s, 0 when it has none
LastDot(s) ==
    IF \E i \in 1..Len(s) : s[i] = "."
    THEN CHOOSE i \in 1..Len(s) : s[i] = "." /\ \A j \in (i + 1)..Len(s) : s[j] # "."
    ELSE 0

\* the length of the run of digits that ends just before position i
DigitsBefore(s, i) ==
    CHOOSE n \in 0..Len(s) :
        /\ n < i
        /\ \A k \in 1..n : IsDigit(s[i - k])
        /\ (n = i - 1 \/ ~IsDigit(s[i - n - 1]))

\* C8: every filename whose run of digits immediately before the final
\* '.extension' has exactly 5 or exactly 7 digits is rejected by Page
\* construction (it raises ValueError), whatever surrounds the run.
C8_FiveOrSevenDigitsRejected ==
    (obj # None /\ LastDot(input.name) > 0
        /\ DigitsBefore(input.name, LastDot(input.name)) \in {5, 7})
    => obj.kind = "ValueError"

\* a name that only its 5-digit date token spoils has been rejected
C8_Witness ==
    /\ obj # None
    /\ input.name = <<"2", "-", "3", "_", "F", "r", "o", "n", "t", "_",
                      "2", "6", "3", "1", "4", ".", "i", "n", "d", "d">>

\* C9 as stated: every failed construction raises one and the same condition,
\* which carries the offending filename: whether the name does not match, its
\* date is not in the calendar, or its extension is not a recognized kind.
C9_SameErrorCarriesName ==
    (obj # None /\ obj.kind # "Page") =>
        obj = ValueError("is an invalid filename", input.name)

(***************************************************************************)
(* Edition stores and edition_dir (src/msutils/edition.py)                 *)
(***************************************************************************)
CURRENT_EDITION_TEMPLATE == "{0:%Y-%m-%d %A %b %-d}"
ARCHIVE_EDITION_TEMPLATE == "{0:%Y/%m %B/%Y-%m-%d %A}"
PRESS_PDFS_TEMPLATE == "{0:PDFs %d%m%y}"
WEB_PDFS_TEMPLATE == "{0:E-edition PDFs %d%m%y}"

EDITION_STORES ==
    << [path     |-> ExpandUserDir(<<"~", "/", "Server", "/", "Pages">>),
        template |-> CURRENT_EDITION_TEMPLATE],
       [path     |-> <<"/", "Volumes", "/", "MS-T4-Archive-2002-2016">>,
        template |-> ARCHIVE_EDITION_TEMPLATE],
       [path     |-> <<"/", "Volumes", "/", "MS-T4-Archive-Since-2017">>,
        template |-> ARCHIVE_EDITION_TEMPLATE],
       [path     |-> <<"/", "Volumes", "/", "Server", "/", "Pages">>,
        template |-> CURRENT_EDITION_TEMPLATE],
       [path     |-> <<"/", "Volumes", "/", "Archive 2002-2016">>,
        template |-> ARCHIVE_EDITION_TEMPLATE],
       [path     |-> <<"/", "Volumes", "/", "Archive since 2017">>,
        template |-> ARCHIVE_EDITION_TEMPLATE] >>

\* %A, %b and %B in the C locale
WeekdayNames ==
    <<"Monday", "Tuesday", "Wednesday", "Thursday", "Friday", "Saturday", "Sunday">>
MonthAbbreviations ==
    <<"Jan", "Feb", "Mar", "Apr", "May", "Jun", "Jul", "Aug", "Sep", "Oct", "Nov", "Dec">>
MonthNames ==
    <<"January", "February", "March", "April", "May", "June", "July", "August",
      "September", "October", "November", "December">>

\* %Y-%m-%d
IsoDate(dt) ==
    FormatInt(dt.year, 4) \o <<"-">> \o FormatInt(dt.month, 2) \o <<"-">>
        \o FormatInt(dt.day, 2)

\* %d%m%y
DayMonthYear(dt) ==
    FormatInt(dt.day, 2) \o FormatInt(dt.month, 2) \o FormatInt(dt.year % 100, 2)

\* template.format(date): the relative path it spells, digits one by one,
\* names as whole words, "/" between components
Format(template, dt) ==
    CASE template = CURRENT_EDITION_TEMPLATE ->
            IsoDate(dt) \o <<" ", WeekdayNames[Weekday(dt) + 1], " ",
                             MonthAbbreviations[dt.month], " ">> \o ToStr(dt.day)
      [] template = ARCHIVE_EDITION_TEMPLATE ->
            FormatInt(dt.year, 4) \o <<"/">> \o FormatInt(dt.month, 2)
                \o <<" ", MonthNames[dt.month], "/">> \o IsoDate(dt)
                \o <<" ", WeekdayNames[Weekday(dt) + 1]>>
      [] template = PRESS_PDFS_TEMPLATE ->
            <<"PDFs", " ">> \o DayMonthYear(dt)
      [] template = WEB_PDFS_TEMPLATE ->
            <<"E-edition", " ", "PDFs", " ">> \o DayMonthYear(dt)

\* Path.joinpath
JoinPath(dir, rel) == dir \o <<"/">> \o rel

\* Path.exists() on a directory
Exists(dir) == dir \in fs

NoEditionStoresError == [kind |-> "NoEditionStoresError"]
NoEditionError(date) == [kind |-> "NoEditionError", date |-> date]
List(seq) == [kind |-> "list", value |-> seq]

\* the comprehension of _fetch_stores over a list of stores
PresentStores(stores) == SelectSeq(stores, LAMBDA st : Exists(st.path))

\* _fetch_stores() that keeps every configured store
FetchStoresUnfiltered == List(EDITION_STORES)

\* _fetch_stores()
FetchStores ==
    Only({IF present_stores # <<>> THEN List(present_stores) ELSE NoEditionStoresError
          : present_stores \in {PresentStores(EDITION_STORES)}})

\* the loop of edition_dir over present_stores from index k, and its else
RECURSIVE EditionDirLoop(_, _, _)
EditionDirLoop(present_stores, k, date) ==
    IF k > Len(present_stores) THEN NoEditionError(date)
    ELSE IF Exists(JoinPath(present_stores[k].path,
                            Format(present_stores[k].template, date)))
    THEN [kind  |-> "path",
          value |-> JoinPath(present_stores[k].path,
                             Format(present_stores[k].template, date))]
    ELSE EditionDirLoop(present_stores, k + 1, date)

\* the loop of edition_dir keeping the last candidate that exists
RECURSIVE EditionDirLastLoop(_, _, _)
EditionDirLastLoop(present_stores, k, date) ==
    IF k < 1 THEN NoEditionError(date)
    ELSE IF Exists(JoinPath(present_stores[k].path,
                            Format(present_stores[k].template, date)))
    THEN [kind  |-> "path",
          value |-> JoinPath(present_stores[k].path,
                             Format(present_stores[k].template, date))]
    ELSE EditionDirLastLoop(present_stores, k - 1, date)

\* edition_dir(date) returning the last store's candidate that exists
EditionDirLast(date) ==
    Only({IF stores.kind # "list" THEN stores
          ELSE EditionDirLastLoop(stores.value, Len(stores.value), date)
          : stores \in {FetchStores}})

\* edition_dir(date) raising NoEditionError when no store is connected
EditionDirOneError(date) ==
    Only({IF stores.kind # "list" THEN NoEditionError(date)
          ELSE EditionDirLoop(stores.value, 1, date)
          : stores \in {FetchStores}})

\* edition_dir(date)
EditionDir(date) ==
    Only({IF stores.kind # "list" THEN stores
          ELSE EditionDirLoop(stores.value, 1, date)
          : stores \in {FetchStores}})

(***************************************************************************)
(* The filesystem: which directories exist.  A volume is mounted or not;   *)
(* edition directories are made under a mounted store in either layout.    *)
(***************************************************************************)
\* how many edition directories exist at once, at most
MaxEditions == 2

EditionDates == {Date(2016, 5, 4), Date(2017, 8, 2)}
EditionTemplates == {CURRENT_EDITION_TEMPLATE, ARCHIVE_EDITION_TEMPLATE}

IsPrefix(p, q) == Len(p) <= Len(q) /\ SubSeq(q, 1, Len(p)) = p

\* p is q or lies under q
Under(p, q) == p = q \/ (IsPrefix(q, p) /\ Len(p) > Len(q) /\ p[Len(q) + 1] = "/")

StoreRoots == {EDITION_STORES[i].path : i \in 1..Len(EDITION_STORES)}

InitStores ==
    /\ fs = {} /\ files = {} /\ call = None /\ result = None /\ warned = FALSE
    /\ PageIdle /\ OrderIdle /\ UploadIdle

\* the volume of store i appears
Mount(i) ==
    /\ ~Exists(EDITION_STORES[i].path)
    /\ fs' = fs \cup {EDITION_STORES[i].path}
    /\ call' = None /\ result' = None /\ warned' = FALSE
    /\ UNCHANGED <<input, obj, ename, reparsed, pa, pb, pc, files, server>>

\* the volume of store i goes away, with all that is on it
Unmount(i) ==
    /\ Exists(EDITION_STORES[i].path)
    /\ fs' = {d \in fs : ~Under(d, EDITION_STORES[i].path)}
    /\ files' = {f \in files : ~Under(f.dir, EDITION_STORES[i].path)}
    /\ call' = None /\ result' = None /\ warned' = FALSE
    /\ UNCHANGED <<input, obj, ename, reparsed, pa, pb, pc, server>>

\* an edition directory for date is made under store i, in one of the layouts
MakeEdition(i, template, date) ==
    /\ Exists(EDITION_STORES[i].path)
    /\ ~Exists(JoinPath(EDITION_STORES[i].path, Format(template, date)))
    /\ Cardinality(fs \ StoreRoots) < MaxEditions
    /\ fs' = fs \cup {JoinPath(EDITION_STORES[i].path, Format(template, date))}
    /\ call' = None /\ result' = None /\ warned' = FALSE
    /\ UNCHANGED <<input, obj, ename, reparsed, pa, pb, pc, files, server>>

\* _fetch_stores()
CallFetchStores ==
    /\ call' = [op |-> "_fetch_stores"]
    /\ result' = FetchStores
    /\ warned' = FALSE
    /\ UNCHANGED <<input, obj, ename, reparsed, pa, pb, pc, fs, files, server>>

\* edition_dir(date)
CallEditionDir(date) ==
    /\ call' = [op |-> "edition_dir", date |-> date]
    /\ result' = EditionDir(date)
    /\ warned' = FALSE
    /\ UNCHANGED <<input, obj, ename, reparsed, pa, pb, pc, fs, files, server>>

NextStores ==
    \/ \E i \in 1..Len(EDITION_STORES) : Mount(i)
    \/ \E i \in 1..Len(EDITION_STORES) : Unmount(i)
    \/ \E i \in 1..Len(EDITION_STORES), template \in EditionTemplates,
          date \in EditionDates : MakeEdition(i, template, date)
    \/ CallFetchStores
    \/ \E date \in EditionDates : CallEditionDir(date)

SpecStores == InitStores /\ [][NextStores]_vars

(***************************************************************************)
(* Claims about the edition stores                                         *)
(***************************************************************************)
Called(op) == call # None /\ call.op = op

StoreIndexes == 1..Len(EDITION_STORES)

RootExists(i) == EDITION_STORES[i].path \in fs

\* store root joined with the store's own template applied to the date
Candidate(i, date) ==
    EDITION_STORES[i].path \o <<"/">> \o Format(EDITION_STORES[i].template, date)

\* the stores whose root exists and whose candidate directory for date exists
Holding(date) == {i \in StoreIndexes : RootExists(i) /\ Candidate(i, date) \in fs}

Lowest(S) == CHOOSE i \in S : \A j \in S : i <= j

\* C1: when a connected store holds the candidate directory for the date,
\* edition_dir(date) returns the candidate of the lowest-index such store,
\* whatever later stores hold.
C1_FirstStoreWins ==
    (Called("edition_dir") /\ Holding(call.date) # {})
        => result = [kind  |-> "path",
                     value |-> Candidate(Lowest(Holding(call.date)), call.date)]

\* edition_dir has answered with the second store's directory although the
\* first store is connected, and a later store holds the edition too
C1_Witness ==
    /\ Called("edition_dir")
    /\ Cardinality(Holding(call.date)) = 2
    /\ RootExists(1) /\ 1 \notin Holding(call.date)
    /\ result.kind = "path"
    /\ result.value = Candidate(Lowest(Holding(call.date)), call.date)

\* C2: edition_dir(date) raises NoEditionStoresError exactly when no store
\* root exists, NoEditionError exactly when a root exists but no connected
\* store holds the candidate directory, and returns a path otherwise.
C2_ErrorsExactly ==
    Called("edition_dir") =>
        /\ result.kind \in {"NoEditionStoresError", "NoEditionError", "path"}
        /\ result.kind = "NoEditionStoresError"
              <=> \A i \in StoreIndexes : ~RootExists(i)
        /\ result.kind = "NoEditionError"
              <=> /\ \E i \in StoreIndexes : RootExists(i)
                  /\ Holding(call.date) = {}

\* NoEditionError was raised with two stores connected, one of which holds
\* an edition directory, but for another date
C2_Witness ==
    /\ Called("edition_dir")
    /\ result.kind = "NoEditionError"
    /\ Cardinality({i \in StoreIndexes : RootExists(i)}) = 2
    /\ \E date \in EditionDates : date # call.date /\ Holding(date) # {}

\* the place of a store in the configuration
StoreIndex(store) == CHOOSE i \in StoreIndexes : EDITION_STORES[i] = store

\* C3: when a store root exists, _fetch_stores() returns the configured
\* (root, template) pairs whose root exists, all of them, once each, in
\* configuration order.
C3_FetchStoresFilters ==
    (Called("_fetch_stores") /\ \E i \in StoreIndexes : RootExists(i)) =>
        /\ result.kind = "list"
        /\ \A k \in 1..Len(result.value) :
              \E i \in StoreIndexes :
                  result.value[k] = EDITION_STORES[i] /\ RootExists(i)
        /\ \A i \in StoreIndexes :
              RootExists(i) =>
                  \E k \in 1..Len(result.value) : result.value[k] = EDITION_STORES[i]
        /\ \A k, l \in 1..Len(result.value) :
              k < l => StoreIndex(result.value[k]) < StoreIndex(result.value[l])

\* _fetch_stores has answered with the first store missing and stores of
\* both layouts, not next to each other in the configuration, connected
C3_Witness ==
    /\ Called("_fetch_stores")
    /\ ~RootExists(1) /\ RootExists(2) /\ ~RootExists(3) /\ RootExists(4)
    /\ result.kind = "list"
    /\ Len(result.value) >= 2
    /\ result.value[1] = EDITION_STORES[2]
    /\ result.value[2] = EDITION_STORES[4]

(***************************************************************************)
(* Scanning an edition directory (src/msutils/edition.py)                  *)
(***************************************************************************)
\* every order the members of a set can be listed in
Orderings(S) ==
    {o \in [1..Cardinality(S) -> S] : \A i, j \in 1..Cardinality(S) : o[i] = o[j] => i = j}

\* str.rfind, 0 when c does not occur
RFind(s, c) ==
    IF \E i \in 1..Len(s) : s[i] = c
    THEN CHOOSE i \in 1..Len(s) : s[i] = c /\ \A j \in (i + 1)..Len(s) : s[j] # c
    ELSE 0

\* Path.suffix: from the last dot, unless the name starts or ends with it
Suffix(name) ==
    IF 1 < RFind(name, ".") /\ RFind(name, ".") < Len(name)
    THEN SubSeq(name, RFind(name, "."), Len(name))
    ELSE <<>>

\* the pattern *.indd on a name
MatchesIndd(name) ==
    Len(name) >= 5 /\ SubSeq(name, Len(name) - 4, Len(name)) = <<".", "i", "n", "d", "d">>

\* the directories directly inside dir
Children(dir) ==
    {d \in fs : /\ Len(d) > Len(dir) + 1
                /\ SubSeq(d, 1, Len(dir) + 1) = dir \o <<"/">>
                /\ \A k \in (Len(dir) + 2)..Len(d) : d[k] # "/"}

\* path.rglob('*.indd'): the matching files of dir, then those of each
\* directory inside it, the order within a directory and the order of the
\* directories being the operating system's
RECURSIVE Rglob(_)
RECURSIVE RglobEach(_)
Rglob(dir) ==
    {here \o below : here \in Orderings({f \in files : f.dir = dir /\ MatchesIndd(f.name)}),
                     below \in RglobEach(Children(dir))}

RglobEach(dirs) ==
    IF dirs = {} THEN {<<>>}
    ELSE UNION {{first \o rest : first \in Rglob(d), rest \in RglobEach(dirs \ {d})}
                : d \in dirs}

\* path.iterdir() filtered by p.suffix == '.pdf', in the operating system's order
IterdirPdfs(dir) ==
    Orderings({f \in files : f.dir = dir /\ Suffix(f.name) = <<".", "p", "d", "f">>})

\* _paths_to_pages(paths) without its try and except
PathsToPagesUncaught(paths) == [k \in DOMAIN paths |-> Page(paths[k])]

\* _paths_to_pages(paths): Page(p) for each path, a ValueError skipped
PathsToPages(paths) ==
    SelectSeq([k \in DOMAIN paths |-> Page(paths[k])], LAMBDA o : o.kind # "ValueError")

\* list.insert at the place sorted() gives page among pages already in order:
\* after everything that is not greater than it
RECURSIVE InsertSorted(_, _)
InsertSorted(pages, page) ==
    IF pages = <<>> THEN <<page>>
    ELSE IF Lt(page, Head(pages)) THEN <<page>> \o pages
    ELSE <<Head(pages)>> \o InsertSorted(Tail(pages), page)

\* sorted(pages): stable, by __lt__
RECURSIVE Sorted(_)
Sorted(pages) ==
    IF pages = <<>> THEN <<>>
    ELSE InsertSorted(Sorted(SubSeq(pages, 1, Len(pages) - 1)), pages[Len(pages)])

\* what a call gives back: a list or an exception, and whether the
\* date-mismatch warnings were logged
Outcome(value, warnings) == [value |-> value, warned |-> warnings]

\* the first thing other than a Page among the outcomes of Page(), if any
Raised(outcomes) ==
    IF \E k \in DOMAIN outcomes : outcomes[k].kind # "Page"
    THEN outcomes[CHOOSE k \in DOMAIN outcomes :
                      /\ outcomes[k].kind # "Page"
                      /\ \A j \in 1..(k - 1) : outcomes[j].kind = "Page"]
    ELSE None

\* Page.__hash__
Hash(page) == <<page.path, page.pages, page.date, page.prefix, page.section, page.type>>

\* set(pages): of pages with one hash that are equal the first stays
AsSet(pages) ==
    {pages[k] : k \in {k \in DOMAIN pages :
        \A j \in 1..(k - 1) : ~(Hash(pages[j]) = Hash(pages[k]) /\ Eq(pages[j], pages[k]))}}

\* x in s
InSet(page, s) == \E q \in s : Hash(q) = Hash(page) /\ Eq(q, page)

\* _filter_pages_for_date(pages, date) without its early return
FilterPagesForDateAlways(pages, date) ==
    {Outcome(List(Sorted(order)), TRUE) :
        order \in Orderings({p \in AsSet(pages) :
                                ~InSet(p, {q \in Range(pages) : q.date # date})})}

\* _filter_pages_for_date(pages, date) returning the set difference as it
\* is iterated
FilterPagesForDateUnsorted(pages, date) ==
    IF Cardinality({pages[k].date : k \in DOMAIN pages}) = 1
    THEN {Outcome(List(pages), FALSE)}
    ELSE {Outcome(List(order), TRUE) :
             order \in Orderings({p \in AsSet(pages) :
                                     ~InSet(p, {q \in Range(pages) : q.date # date})})}

\* _filter_pages_for_date(pages, date): the outcomes it can have, one for
\* each order the set difference can be iterated in
FilterPagesForDate(pages, date) ==
    IF Cardinality({pages[k].date : k \in DOMAIN pages}) = 1
    THEN {Outcome(List(pages), FALSE)}
    ELSE {Outcome(List(Sorted(order)), TRUE) :
             order \in Orderings({p \in AsSet(pages) :
                                     ~InSet(p, {q \in Range(pages) : q.date # date})})}

\* the Pages of a listing in the order the directory produced them
SortedPagesAsListed(listing) ==
    Only({IF Raised(outcomes) # None THEN Raised(outcomes) ELSE List(outcomes)
          : outcomes \in {PathsToPages(listing)}})

\* sorted(_paths_to_pages(listing)), unless Page() raised something that
\* _paths_to_pages does not catch
SortedPages(listing) ==
    Only({IF Raised(outcomes) # None THEN Raised(outcomes) ELSE List(Sorted(outcomes))
          : outcomes \in {PathsToPages(listing)}})

\* directory_indd_files(path): the lists it can return
DirectoryInddFiles(path) == {SortedPages(listing) : listing \in Rglob(path)}

\* the second and third line of directory_pdfs: path.iterdir() raises
\* FileNotFoundError for a directory that is not there
ListPdfs(path) ==
    IF ~Exists(path) THEN {[kind |-> "FileNotFoundError"]}
    ELSE {SortedPages(listing) : listing \in IterdirPdfs(path)}

\* directory_pdfs(path) without its first line
DirectoryPdfsUnguarded(path) == ListPdfs(path)

\* directory_pdfs(path): the lists it can return
DirectoryPdfs(path) ==
    IF ~Exists(path) THEN {List(<<>>)}
    ELSE ListPdfs(path)

\* _filter_pages_for_date on what the scan of a directory returned
Filtered(all_files, date) ==
    IF all_files.kind # "list" THEN {Outcome(all_files, FALSE)}
    ELSE FilterPagesForDate(all_files.value, date)

\* edition_indd_files(date)
EditionInddFiles(date) ==
    Only({IF ed_dir.kind # "path" THEN {Outcome(ed_dir, FALSE)}
          ELSE UNION {Filtered(all_files, date) :
                         all_files \in DirectoryInddFiles(ed_dir.value)}
          : ed_dir \in {EditionDir(date)}})

\* _edition_subdirectory(date, subdir_template)
EditionSubdirectory(date, subdir_template) ==
    Only({IF ed_dir.kind # "path" THEN ed_dir
          ELSE [kind  |-> "path",
                value |-> JoinPath(ed_dir.value, Format(subdir_template, date))]
          : ed_dir \in {EditionDir(date)}})

\* _fetch_pdfs_for_directory_template(date, template)
FetchPdfsForDirectoryTemplate(date, template) ==
    Only({IF pdfs_dir.kind # "path" THEN {Outcome(pdfs_dir, FALSE)}
          ELSE UNION {Filtered(all_pdfs, date) :
                         all_pdfs \in DirectoryPdfs(pdfs_dir.value)}
          : pdfs_dir \in {EditionSubdirectory(date, template)}})

\* edition_press_pdfs(date)
EditionPressPdfs(date) == FetchPdfsForDirectoryTemplate(date, PRESS_PDFS_TEMPLATE)

\* edition_web_pdfs(date)
EditionWebPdfs(date) == FetchPdfsForDirectoryTemplate(date, WEB_PDFS_TEMPLATE)

(***************************************************************************)
(* One store with one edition: directories are made and files put in them, *)
(* and the three listings are asked for.                                   *)
(***************************************************************************)
\* how many files exist at once, at most
MaxFiles == 2

\* the store the edition is kept in, and the edition's date
ScanStore == 4
ScanDate == Date(2016, 5, 4)

Indd == <<"i", "n", "d", "d">>
May5 == <<"0", "5", "0", "5", "1", "6">>

\* file names found in an edition: pages of the day, a page of the next
\* day, a day that is not in the calendar, the same page with its section
\* or its extension in capitals
ScanNames ==
    { MakePageName(<<>>, <<"1">>, Front, May4, Indd),
      MakePageName(<<>>, <<"2">>, Front, May4, Indd),
      MakePageName(<<>>, <<"1">>, Front, May5, Indd),
      MakePageName(<<>>, <<"1">>, Front, May4, Pdf),
      MakePageName(<<>>, <<"1">>, Front, May5, Pdf),
      MakePageName(<<>>, <<"1">>, <<"F", "R", "O", "N", "T">>, May4, Pdf),
      MakePageName(<<>>, <<"1">>, Front, <<"3", "1", "0", "4", "1", "6">>, Pdf),
      MakePageName(<<>>, <<"1">>, Front, May4, <<"P", "D", "F">>) }

\* the edition's directory in the store, and the directories inside it
ScanEditionDir ==
    JoinPath(EDITION_STORES[ScanStore].path, Format(CURRENT_EDITION_TEMPLATE, ScanDate))

ScanSubdirectories ==
    { JoinPath(ScanEditionDir, <<"Supplement">>),
      JoinPath(ScanEditionDir, Format(PRESS_PDFS_TEMPLATE, ScanDate)),
      JoinPath(ScanEditionDir, Format(WEB_PDFS_TEMPLATE, ScanDate)) }

InitScan == ScanIdle /\ PageIdle /\ OrderIdle /\ UploadIdle

\* the caller has its answer; the next call is made afresh
Return ==
    /\ call # None
    /\ call' = None /\ result' = None /\ warned' = FALSE
    /\ UNCHANGED <<input, obj, ename, reparsed, pa, pb, pc, fs, files, server>>

\* a directory is made inside the edition's directory
MakeSubdirectory(dir) ==
    /\ call = None
    /\ Exists(ScanEditionDir)
    /\ ~Exists(dir)
    /\ fs' = fs \cup {dir}
    /\ call' = None /\ result' = None /\ warned' = FALSE
    /\ UNCHANGED <<input, obj, ename, reparsed, pa, pb, pc, files, server>>

\* a file is saved in the edition's directory or in a directory inside it
PutFile(dir, name) ==
    /\ call = None
    /\ Exists(dir)
    /\ Path(dir, name) \notin files
    /\ Cardinality(files) < MaxFiles
    /\ files' = files \cup {Path(dir, name)}
    /\ call' = None /\ result' = None /\ warned' = FALSE
    /\ UNCHANGED <<input, obj, ename, reparsed, pa, pb, pc, fs, server>>

\* edition_indd_files(date)
CallEditionInddFiles(date) ==
    \E outcome \in EditionInddFiles(date) :
        /\ call = None
        /\ call' = [op |-> "edition_indd_files", date |-> date]
        /\ result' = outcome.value
        /\ warned' = outcome.warned
        /\ UNCHANGED <<input, obj, ename, reparsed, pa, pb, pc, fs, files, server>>

\* edition_press_pdfs(date)
CallEditionPressPdfs(date) ==
    \E outcome \in EditionPressPdfs(date) :
        /\ call = None
        /\ call' = [op |-> "edition_press_pdfs", date |-> date]
        /\ result' = outcome.value
        /\ warned' = outcome.warned
        /\ UNCHANGED <<input, obj, ename, reparsed, pa, pb, pc, fs, files, server>>

\* edition_web_pdfs(date)
CallEditionWebPdfs(date) ==
    \E outcome \in EditionWebPdfs(date) :
        /\ call = None
        /\ call' = [op |-> "edition_web_pdfs", date |-> date]
        /\ result' = outcome.value
        /\ warned' = outcome.warned
        /\ UNCHANGED <<input, obj, ename, reparsed, pa, pb, pc, fs, files, server>>

\* directory_pdfs(path)
CallDirectoryPdfs(path) ==
    \E all_pdfs \in DirectoryPdfs(path) :
        /\ call = None
        /\ call' = [op |-> "directory_pdfs", path |-> path]
        /\ result' = all_pdfs
        /\ warned' = FALSE
        /\ UNCHANGED <<input, obj, ename, reparsed, pa, pb, pc, fs, files, server>>

NextScan ==
    \/ Return
    \/ Mount(ScanStore)
    \/ MakeEdition(ScanStore, CURRENT_EDITION_TEMPLATE, ScanDate)
    \/ \E dir \in ScanSubdirectories : MakeSubdirectory(dir)
    \/ \E dir \in {ScanEditionDir} \cup ScanSubdirectories, name \in ScanNames :
          PutFile(dir, name)
    \/ CallEditionInddFiles(ScanDate)
    \/ CallEditionPressPdfs(ScanDate)
    \/ CallEditionWebPdfs(ScanDate)
    \/ CallDirectoryPdfs(JoinPath(ScanEditionDir, Format(PRESS_PDFS_TEMPLATE, ScanDate)))

SpecScan == InitScan /\ [][NextScan]_vars

(***************************************************************************)
(* Claims about the listings of an edition                                 *)
(***************************************************************************)
ListingCalled ==
    \/ Called("edition_indd_files")
    \/ Called("edition_press_pdfs")
    \/ Called("edition_web_pdfs")

\* C10: every Page in a list returned by edition_indd_files(date),
\* edition_press_pdfs(date) or edition_web_pdfs(date) has the requested
\* date, whatever the directories hold.
C10_OnlyRequestedDate ==
    (ListingCalled /\ result.kind = "list") =>
        \A k \in 1..Len(result.value) : result.value[k].date = call.date

(***************************************************************************)
(* The functions under the listings, called on lists of their own:         *)
(* _paths_to_pages and _filter_pages_for_date                              *)
(***************************************************************************)
\* how many paths a list handed to a function holds, at most
MaxList == 3

June4 == <<"0", "4", "0", "6", "1", "5">>

\* names of files of one directory: two pages of 4 May 2016, the first of
\* them again with its section in capitals, pages of two other days, a
\* name that is no page and a day that is not in the calendar
FilterNames ==
    { MakePageName(<<>>, <<"1">>, Front, May4, Pdf),
      MakePageName(<<>>, <<"2">>, Front, May4, Pdf),
      MakePageName(<<>>, <<"1">>, <<"F", "R", "O", "N", "T">>, May4, Pdf),
      MakePageName(<<>>, <<"1">>, Front, May5, Pdf),
      MakePageName(<<>>, <<"1">>, Front, June4, Pdf),
      <<"n", "o", "t", "-", "a", "-", "p", "a", "g", "e", ".", "p", "d", "f">>,
      MakePageName(<<>>, <<"1">>, Front, <<"3", "1", "0", "4", "1", "6">>, Pdf) }

FilterPaths == {Path(DirB, name) : name \in FilterNames}

\* the lists of up to MaxList different paths, in every order
PathLists ==
    UNION {Orderings(S) : S \in {S \in SUBSET FilterPaths : Cardinality(S) <= MaxList}}

FilterDates == {Date(2016, 5, 4), Date(2016, 5, 5), Date(2017, 8, 2)}

InitFilter == ScanIdle /\ PageIdle /\ OrderIdle /\ UploadIdle

\* list(_paths_to_pages(paths))
CallPathsToPages(paths) ==
    /\ call = None
    /\ call' = [op |-> "_paths_to_pages", paths |-> paths]
    /\ result' = Only({IF Raised(outcomes) # None THEN Raised(outcomes)
                       ELSE List(outcomes)
                       : outcomes \in {PathsToPages(paths)}})
    /\ warned' = FALSE
    /\ UNCHANGED <<input, obj, ename, reparsed, pa, pb, pc, fs, files, server>>

\* _filter_pages_for_date(pages, date) on the pages of a list of paths
CallFilterPagesForDate(paths, date) ==
    \E pages \in {PathsToPages(paths)} :
        /\ call = None
        /\ Raised(pages) = None
        /\ \E outcome \in FilterPagesForDate(pages, date) :
              /\ call' = [op |-> "_filter_pages_for_date", pages |-> pages, date |-> date]
              /\ result' = outcome.value
              /\ warned' = outcome.warned
        /\ UNCHANGED <<input, obj, ename, reparsed, pa, pb, pc, fs, files, server>>

NextFilter ==
    \/ Return
    \/ \E paths \in PathLists : CallPathsToPages(paths)
    \/ \E paths \in PathLists, date \in FilterDates : CallFilterPagesForDate(paths, date)

SpecFilter == InitFilter /\ [][NextFilter]_vars

\* the dates of the pages handed to the function
DatesPresent == {call.pages[k].date : k \in DOMAIN call.pages}

\* C11: with pages of more than one date in its input,
\* _filter_pages_for_date(pages, date) returns the input pages of the
\* requested date, each of them once and no other, in ascending order.
C11_FilterKeepsRequestedDate ==
    (Called("_filter_pages_for_date") /\ Cardinality(DatesPresent) > 1) =>
        /\ result.kind = "list"
        /\ \A k \in DOMAIN result.value :
              /\ result.value[k].date = call.date
              /\ \E j \in DOMAIN call.pages : call.pages[j] = result.value[k]
              /\ \A l \in DOMAIN result.value : result.value[l] = result.value[k] => l = k
        /\ \A j \in DOMAIN call.pages :
              call.pages[j].date = call.date
                  => \E k \in DOMAIN result.value : result.value[k] = call.pages[j]
        /\ \A k \in 1..(Len(result.value) - 1) :
              ~Lt(result.value[k + 1], result.value[k])

\* the function was handed three pages, not in order, one of them of
\* another day, and gave back the two of the requested day
C11_Witness ==
    /\ Called("_filter_pages_for_date")
    /\ Len(call.pages) = 3
    /\ Lt(call.pages[3], call.pages[1])
    /\ call.pages[2].date # call.date
    /\ Len(result.value) = 2
    /\ Lt(result.value[1], result.value[2])
    /\ warned

\* C12: directory_pdfs(path) returns an empty list, raises nothing and
\* lists nothing when path does not exist.
C12_MissingDirectoryGivesEmptyList ==
    (Called("directory_pdfs") /\ call.path \notin fs) => result = List(<<>>)

\* directory_pdfs has answered for the press directory of an edition that
\* exists, the directory itself not made yet
C12_Witness ==
    /\ Called("directory_pdfs")
    /\ ScanEditionDir \in fs
    /\ call.path = ScanEditionDir \o <<"/">> \o Format(PRESS_PDFS_TEMPLATE, ScanDate)
    /\ call.path \notin fs
    /\ result = List(<<>>)

\* whether Page() takes the file at path
Accepted(path) == Page(path).kind = "Page"

\* C13: _paths_to_pages yields the Page of every path whose name Page()
\* takes, in the order of the paths, also of those that follow a name it
\* does not take, yields nothing for the others, and raises nothing.
C13_RejectedEntriesAreSkipped ==
    Called("_paths_to_pages") =>
        /\ result.kind = "list"
        /\ Len(result.value) = Len(SelectSeq(call.paths, Accepted))
        /\ \A k \in DOMAIN result.value :
              result.value[k] = Page(SelectSeq(call.paths, Accepted)[k])

\* the paths began with a name outside the grammar, went on with a day that
\* is not in the calendar and ended with a page, which alone was yielded
C13_Witness ==
    /\ Called("_paths_to_pages")
    /\ Len(call.paths) = 3
    /\ Page(call.paths[1]).kind = "ValueError"
    /\ Page(call.paths[1]).text = "is an invalid filename"
    /\ Page(call.paths[2]).kind = "ValueError"
    /\ Page(call.paths[2]).text = "day is out of range for month"
    /\ Accepted(call.paths[3])
    /\ result = List(<<Page(call.paths[3])>>)

PdfsCalled == Called("edition_press_pdfs") \/ Called("edition_web_pdfs")

\* the directory edition_press_pdfs or edition_web_pdfs has looked in
PdfsDirectoryCalled ==
    EditionDir(call.date).value \o <<"/">>
        \o Format(IF call.op = "edition_press_pdfs" THEN PRESS_PDFS_TEMPLATE
                  ELSE WEB_PDFS_TEMPLATE, call.date)

\* a file whose name the grammar takes as a page of kind pdf
AcceptablePdf(f) == Page(f).kind = "Page" /\ Page(f).type = Pdf

\* C14: the three listings raise NoEditionStoresError or NoEditionError
\* exactly when edition_dir(date) raises it, and the two listings of PDFs
\* return an empty list only when the edition's directory exists and its
\* PDF directory is missing or holds no acceptable file.
C14_ErrorsPropagateEmptyOnlyIfNothingAcceptable ==
    /\ ListingCalled =>
          IF EditionDir(call.date).kind \in {"NoEditionStoresError", "NoEditionError"}
          THEN result = EditionDir(call.date)
          ELSE result.kind \notin {"NoEditionStoresError", "NoEditionError"}
    /\ (PdfsCalled /\ result = List(<<>>)) =>
          /\ EditionDir(call.date).kind = "path"
          /\ \/ PdfsDirectoryCalled \notin fs
             \/ \A f \in files : f.dir = PdfsDirectoryCalled => ~AcceptablePdf(f)

(***************************************************************************)
(* Claims about the fields of a Page                                       *)
(***************************************************************************)
\* the number written by the first run of digits of a name
FirstNumber(name) ==
    ToInt(SubSeq(name,
                 CHOOSE i \in 1..Len(name) :
                     IsDigit(name[i]) /\ \A j \in 1..(i - 1) : ~IsDigit(name[j]),
                 (CHOOSE i \in 1..Len(name) :
                     IsDigit(name[i]) /\ \A j \in 1..(i - 1) : ~IsDigit(name[j]))
                   + RunLen(name,
                            CHOOSE i \in 1..Len(name) :
                                IsDigit(name[i]) /\ \A j \in 1..(i - 1) : ~IsDigit(name[j]),
                            "digit") - 1))

\* C15: the pages of every Page built are one or two integers, each at
\* least 1, the first page number first.
C15_PagesPositive ==
    (obj # None /\ obj.kind = "Page") =>
        /\ Len(obj.pages) \in {1, 2}
        /\ obj.pages[1] = FirstNumber(input.name)
        /\ \A k \in DOMAIN obj.pages : obj.pages[k] >= 1

\* C16: the section of every Page built is not empty and neither begins
\* nor ends with a separator (hyphen, underscore, space), so that it is not
\* made of separators only.
C16_SectionTrimmedNonEmpty ==
    (obj # None /\ obj.kind = "Page") =>
        /\ Len(obj.section) >= 1
        /\ ~IsSep(obj.section[1])
        /\ ~IsSep(obj.section[Len(obj.section)])

\* C17: the prefix of every Page built is empty or one uppercase ASCII
\* letter, and a name that begins with two letters or more is rejected.
C17_PrefixUppercase ==
    /\ (obj # None /\ obj.kind = "Page") =>
          \/ obj.prefix = <<>>
          \/ Len(obj.prefix) = 1 /\ IsUpper(obj.prefix[1])
    /\ (obj # None /\ Len(input.name) >= 2
            /\ IsLetter(input.name[1]) /\ IsLetter(input.name[2]))
          => obj.kind = "ValueError"

(***************************************************************************)
(* Uploading (src/msutils/uploading.py).  The far end and the network are  *)
(* the environment: each call is made with the place, if any, where the    *)
(* environment makes it fail.  host, user, password and port are handed on *)
(* to the connection unchanged and are left out.                           *)
(***************************************************************************)
\* new_name in the loop over the pages
NewName(page, rename) == IF rename THEN ExternalName(page) ELSE page.path.name

\* the loop over the pages run from the last page to the first
RequestsBackwards(pages, path, rename) ==
    (IF path # None THEN <<[cmd |-> "cwd", name |-> path.value, local |-> None]>>
     ELSE <<>>)
    \o [k \in DOMAIN pages |->
           [cmd   |-> "put",
            name  |-> NewName(pages[Len(pages) + 1 - k], rename),
            local |-> pages[Len(pages) + 1 - k].path]]

\* what the call asks of the far end once connected, in order: the change
\* of directory if path is given, then one upload for each page
Requests(pages, path, rename) ==
    (IF path # None THEN <<[cmd |-> "cwd", name |-> path.value, local |-> None]>>
     ELSE <<>>)
    \o [k \in DOMAIN pages |->
           [cmd |-> "put", name |-> NewName(pages[k], rename), local |-> pages[k].path]]

\* the place where the environment makes a call fail, and with what
Fault(at, k, error) == [at |-> at, k |-> k, error |-> error]

\* ftplib.all_errors
FtpAllErrors == {"ftplib.Error", "OSError", "EOFError"}

\* what paramiko raises when the connection cannot be made: the three that
\* send_pages_sftp names, and the socket's own error
SshConnectErrors ==
    {"AuthenticationException", "BadHostKeyException", "SSHException", "OSError"}

\* the except clauses after ssh_client.connect
SshErrorsCaught == {"AuthenticationException", "BadHostKeyException", "SSHException"}

Returned == [kind |-> "returned"]
Raise(error) == [kind |-> "raised", error |-> error]

\* the far end as a call leaves it: the connection made, whether an SFTP
\* session was opened, the requests received, and whether the client was
\* closed in the end
Server(connection, session, received, closed) ==
    [connection |-> connection, session |-> session,
     received |-> received, closed |-> closed]

\* ftplib refuses to send a command line that holds a line break
IllegalNewline(request) ==
    \E i \in DOMAIN request.name : request.name[i] \in {"\n", "\r"}

\* the first request ftplib refuses, or the one after the last if none
FirstIllegal(requests) ==
    CHOOSE k \in 1..(Len(requests) + 1) :
        /\ k <= Len(requests) => IllegalNewline(requests[k])
        /\ \A j \in 1..(k - 1) : ~IllegalNewline(requests[j])

\* send_pages_ftp without its except clause
SendPagesFtpUncaught(pages, path, rename, fault) ==
    Only({IF fault # None /\ fault.at = "connect"
          THEN [result |-> Raise(fault.error), server |-> Server("none", FALSE, <<>>, FALSE)]
          ELSE IF fault # None /\ fault.k <= stop
          THEN [result |-> Raise(fault.error),
                server |-> Server("ftp", FALSE, SubSeq(requests, 1, fault.k - 1), TRUE)]
          ELSE IF stop <= Len(requests)
          THEN [result |-> Raise("ValueError"),
                server |-> Server("ftp", FALSE, SubSeq(requests, 1, stop - 1), TRUE)]
          ELSE [result |-> Returned, server |-> Server("ftp", FALSE, requests, TRUE)]
          : requests \in {Requests(pages, path, rename)},
            stop \in {FirstIllegal(Requests(pages, path, rename))}})

\* send_pages_ftp(pages, host, user, password, path, rename): what it
\* returns or raises, and what it leaves at the far end
SendPagesFtp(pages, path, rename, fault) ==
    Only({IF fault # None /\ fault.at = "connect"
          THEN [result |-> Returned, server |-> Server("none", FALSE, <<>>, FALSE)]
          ELSE IF fault # None /\ fault.k <= stop
          THEN [result |-> Returned,
                server |-> Server("ftp", FALSE, SubSeq(requests, 1, fault.k - 1), TRUE)]
          ELSE IF stop <= Len(requests)
          THEN [result |-> Raise("ValueError"),
                server |-> Server("ftp", FALSE, SubSeq(requests, 1, stop - 1), TRUE)]
          ELSE [result |-> Returned, server |-> Server("ftp", FALSE, requests, TRUE)]
          : requests \in {Requests(pages, path, rename)},
            stop \in {FirstIllegal(Requests(pages, path, rename))}})

\* send_pages_sftp with a return in no except clause: open_sftp is asked
\* of a client that is not connected
SendPagesSftpGoingOn(pages, path, rename, fault) ==
    Only({IF fault # None /\ fault.at = "connect" /\ fault.error \notin SshErrorsCaught
          THEN [result |-> Raise(fault.error),
                server |-> Server("none", FALSE, <<>>, FALSE)]
          ELSE IF fault # None /\ fault.at = "connect"
          THEN [result |-> Raise("SSHException"),
                server |-> Server("none", TRUE, <<>>, FALSE)]
          ELSE IF fault # None /\ fault.at = "open_sftp"
          THEN [result |-> Raise(fault.error),
                server |-> Server("ssh", FALSE, <<>>, FALSE)]
          ELSE IF fault # None /\ fault.at = "request"
          THEN [result |-> Raise(fault.error),
                server |-> Server("ssh", TRUE, SubSeq(requests, 1, fault.k - 1), FALSE)]
          ELSE [result |-> Returned, server |-> Server("ssh", TRUE, requests, TRUE)]
          : requests \in {Requests(pages, path, rename)}})

\* send_pages_sftp(pages, host, user, password, port, path, rename): what
\* it returns or raises, and what it leaves at the far end
SendPagesSftp(pages, path, rename, fault) ==
    Only({IF fault # None /\ fault.at = "connect"
          THEN [result |-> IF fault.error \in SshErrorsCaught THEN Returned
                           ELSE Raise(fault.error),
                server |-> Server("none", FALSE, <<>>, FALSE)]
          ELSE IF fault # None /\ fault.at = "open_sftp"
          THEN [result |-> Raise(fault.error),
                server |-> Server("ssh", FALSE, <<>>, FALSE)]
          ELSE IF fault # None /\ fault.at = "request"
          THEN [result |-> Raise(fault.error),
                server |-> Server("ssh", TRUE, SubSeq(requests, 1, fault.k - 1), FALSE)]
          ELSE [result |-> Returned, server |-> Server("ssh", TRUE, requests, TRUE)]
          : requests \in {Requests(pages, path, rename)}})

(***************************************************************************)
(* SpecUpload: lists of pages are sent by FTP and by SFTP, to a directory  *)
(* or not, renamed or not, and the environment fails where it may.         *)
(***************************************************************************)
\* how many pages a list to upload holds, at most
MaxUpload == 2

\* a page, a spread with a prefix in another directory, and a page whose
\* file name ends with a line break
UploadPages ==
    { Page(Path(DirA, MakePageName(<<>>, <<"2">>, Front, May4, Pdf))),
      Page(Path(DirB, MakePageName(<<"A">>, <<"2", "-", "3">>, Front,
                                   <<"0", "4", "-", "0", "5", "-", "2", "0", "1", "6">>,
                                   Indd))),
      Page(Path(DirB, MakePageName(<<>>, <<"1">>, Front, May4, Pdf) \o <<"\n">>)) }

UploadLists == UNION {[1..n -> UploadPages] : n \in 0..MaxUpload}

RemotePaths == {None, Str_(<<"sub", "/", "dir">>)}

\* where and how a call by FTP with n requests can be made to fail
FtpFaults(n) ==
    {None} \cup {Fault("connect", 0, e) : e \in FtpAllErrors}
           \cup {Fault("request", k, e) : k \in 1..n, e \in FtpAllErrors}

\* where and how a call by SFTP with n requests can be made to fail
SftpFaults(n) ==
    {None} \cup {Fault("connect", 0, e) : e \in SshConnectErrors}
           \cup {Fault("open_sftp", 0, "SSHException")}
           \cup {Fault("request", k, "IOError") : k \in 1..n}

InitUpload == ScanIdle /\ PageIdle /\ OrderIdle /\ UploadIdle

\* send_pages_ftp(pages, host, user, password, path, rename)
CallSendPagesFtp(pages, path, rename, fault) ==
    /\ call = None
    /\ call' = [op |-> "send_pages_ftp", pages |-> pages, path |-> path,
                rename |-> rename, fault |-> fault]
    /\ \E outcome \in {SendPagesFtp(pages, path, rename, fault)} :
          result' = outcome.result /\ server' = outcome.server
    /\ UNCHANGED <<input, obj, ename, reparsed, pa, pb, pc, fs, files, warned>>

\* send_pages_sftp(pages, host, user, password, port, path, rename)
CallSendPagesSftp(pages, path, rename, fault) ==
    /\ call = None
    /\ call' = [op |-> "send_pages_sftp", pages |-> pages, path |-> path,
                rename |-> rename, fault |-> fault]
    /\ \E outcome \in {SendPagesSftp(pages, path, rename, fault)} :
          result' = outcome.result /\ server' = outcome.server
    /\ UNCHANGED <<input, obj, ename, reparsed, pa, pb, pc, fs, files, warned>>

NextUpload ==
    \/ Return
    \/ \E pages \in UploadLists, path \in RemotePaths, rename \in BOOLEAN :
          \E fault \in FtpFaults(Len(Requests(pages, path, rename))) :
              CallSendPagesFtp(pages, path, rename, fault)
    \/ \E pages \in UploadLists, path \in RemotePaths, rename \in BOOLEAN :
          \E fault \in SftpFaults(Len(Requests(pages, path, rename))) :
              CallSendPagesSftp(pages, path, rename, fault)

SpecUpload == InitUpload /\ [][NextUpload]_vars

(***************************************************************************)
(* Claims about uploading                                                  *)
(***************************************************************************)
SendCalled == Called("send_pages_ftp") \/ Called("send_pages_sftp")

\* the uploads among the requests the far end received
Uploads == SelectSeq(server.received, LAMBDA r : r.cmd = "put")

\* C18: when no error occurs, send_pages_ftp and send_pages_sftp upload
\* each page of the list once and in the order of the list, from page.path,
\* under page.external_name() if rename is true and under the file's own
\* name if not, after changing to path first if a path is given.
C18_UploadsEachPageInOrder ==
    (SendCalled /\ call.fault = None /\ result = Returned) =>
        /\ Len(Uploads) = Len(call.pages)
        /\ \A k \in DOMAIN call.pages :
              /\ Uploads[k].local = call.pages[k].path
              /\ Uploads[k].name = IF call.rename THEN ExternalName(call.pages[k])
                                   ELSE call.pages[k].path.name
        /\ IF call.path = None THEN server.received = Uploads
           ELSE /\ Len(server.received) = Len(Uploads) + 1
                /\ server.received[1].cmd = "cwd"
                /\ server.received[1].name = call.path.value

\* two pages went by FTP to sub/dir under their external names, the page
\* first and the spread second
C18_Witness ==
    /\ Called("send_pages_ftp")
    /\ call.fault = None /\ result = Returned
    /\ call.rename /\ call.path # None
    /\ Len(call.pages) = 2
    /\ call.pages[1].pages = <<2>> /\ call.pages[2].pages = <<2, 3>>
    /\ Len(server.received) = 3
    /\ server.received[1].name = <<"sub", "/", "dir">>
    /\ server.received[2].name =
          <<"M", "S", "_", "2", "0", "1", "6", "_", "0", "5", "_", "0", "4", "_",
            "0", "0", "2", ".", "p", "d", "f">>
    /\ server.received[3].name =
          <<"M", "S", "_", "A", "_", "2", "0", "1", "6", "_", "0", "5", "_", "0", "4", "_",
            "0", "0", "2", "-", "0", "0", "3", ".", "i", "n", "d", "d">>
    /\ server.received[3].local = call.pages[2].path

\* C19: when the connection attempt of send_pages_sftp fails with an
\* AuthenticationException, a BadHostKeyException or another SSHException,
\* the function returns without raising, no SFTP session is opened and no
\* page is uploaded.
C19_ConnectionErrorsReturn ==
    (Called("send_pages_sftp") /\ call.fault # None /\ call.fault.at = "connect"
        /\ call.fault.error \in {"AuthenticationException", "BadHostKeyException",
                                 "SSHException"})
    => /\ result = Returned
       /\ ~server.session
       /\ server.received = <<>>

\* the connection was refused for the host's key with two pages to send
C19_Witness ==
    /\ Called("send_pages_sftp")
    /\ call.fault = Fault("connect", 0, "BadHostKeyException")
    /\ Len(call.pages) = 2
    /\ result = Returned
    /\ server.received = <<>>

\* C20: equality looks at the left-hand page number only: two Pages of one
\* date, kind, prefix and first page number whose sections are equal but
\* for case compare equal, whatever their second page numbers.
C20_EqualityIgnoresSecondPage ==
    (Built(pa) /\ Built(pb)
        /\ pa.date = pb.date /\ pa.type = pb.type /\ pa.prefix = pb.prefix
        /\ pa.pages[1] = pb.pages[1]
        /\ Lower(pa.section) = Lower(pb.section))
    => (Eq(pa, pb) /\ ~Ne(pa, pb))

ExtensionFollowed(s) ==
    \E i \in 1..Len(s) : \E ty \in PageTypes :
        /\ s[i] = "."
        /\ i + Len(ty) < Len(s)
        /\ Lower(SubSeq(s, i + 1, i + Len(ty))) = ty

\* C23: Page construction accepts a filename only if the grammar consumes
\* all of it: a name with one or more characters of any kind, a line break
\* included, after a recognized extension is rejected.
C23_TrailingCharactersRejected ==
    (obj # None /\ ExtensionFollowed(input.name)) => obj.kind = "ValueError"

\* s.strip(' -_')
RECURSIVE StripSeparators(_)
StripSeparators(s) ==
    IF s = <<>> THEN s
    ELSE IF IsSep(Head(s)) THEN StripSeparators(Tail(s))
    ELSE IF IsSep(s[Len(s)]) THEN StripSeparators(SubSeq(s, 1, Len(s) - 1))
    ELSE s

\* the parts the names of C24 are built of: prefixes that are empty or one
\* uppercase letter, page-number tuples, sections without a digit that
\* stripping leaves something of, dates from 2000-01-01 to 2033-01-01
KeyPrefixes == {pre \in PrefixParts : pre = <<>> \/ (Len(pre) = 1 /\ IsUpper(pre[1]))}
KeyPageNumbers ==
    {<<n>> : n \in (0..MaxPage) \cup {12, 1000}}
        \cup {<<n, n + 1>> : n \in {n \in 0..MaxPage : n % 2 = 0}}
KeySections ==
    {sec \in {Tail(mid) : mid \in {mid \in MiddleParts : mid # <<>> /\ Head(mid) = "_"}} :
        /\ \A i \in 1..Len(sec) : ~IsDigit(sec[i])
        /\ StripSeparators(sec) # <<>>}
KeyDates == {Date(2016, 5, 4), Date(2000, 1, 1)}

\* f'{prefix}{num_str}_{section}{page_date:%d%m%y}.{suffix}'
KeyName(prefix, page_nums, section, page_date, suffix) ==
    prefix \o Join([i \in 1..Len(page_nums) |-> ToStr(page_nums[i])], "-")
        \o <<"_">> \o section
        \o FormatInt(page_date.day, 2) \o FormatInt(page_date.month, 2)
        \o FormatInt(page_date.year % 100, 2)
        \o <<".">> \o suffix

\* C24: a filename built as prefix, page numbers (one, or two joined by
\* '-'), '_', section, ddmmyy, '.', suffix -- the prefix empty or one
\* uppercase letter, the section without a digit and not empty once ' -_'
\* are stripped, the date from 2000-01-01 to 2033-01-01, the suffix pdf or
\* indd -- is accepted, and the comparison key of its Page is (that date,
\* the suffix, the prefix, the page-number tuple, the section lower-cased
\* and stripped of leading and trailing ' -_').
C24_ComparisonKeyOfBuiltName ==
    \A prefix \in KeyPrefixes, page_nums \in KeyPageNumbers, section \in KeySections,
       page_date \in KeyDates, suffix \in PageTypes :
        (obj # None
            /\ input.name = KeyName(prefix, page_nums, section, page_date, suffix))
        => /\ obj.kind = "Page"
           /\ ComparisonKeys(obj) =
                <<page_date, suffix, prefix, page_nums, StripSeparators(Lower(section))>>

\* a spread with a prefix, a section with separators at both ends and
\* inside, and the first date of the range has been constructed
C24_Witness ==
    /\ obj # None
    /\ input.name = KeyName(<<"A">>, <<2, 3>>,
                            <<"-", " ", "T", "v", "-", "x", " ", "_">>,
                            Date(2000, 1, 1), Pdf)
    /\ obj.kind = "Page"
    /\ obj.section = <<"T", "v", "-", "x">>

\* C25: Pages that compare equal have equal hashes: a == b implies
\* hash(a) == hash(b).
C25_EqualPagesHashAlike ==
    (Built(pa) /\ Built(pb) /\ Eq(pa, pb)) => Hash(pa) = Hash(pb)

\* C26: on every path of send_pages_sftp that creates the SSH client -- all
\* pages uploaded, the connection attempt failed, chdir or a put failed in
\* the middle -- the client's close() has been called by the time the
\* function returns or raises.
C26_SshClientClosed ==
    Called("send_pages_sftp") => server.closed

\* C27: _filter_pages_for_date logs its date-mismatch warnings only when
\* the list holds Pages of more than one date; for an empty list, such as
\* that of a PDF directory that does not exist yet, it logs none.
C27_WarnsOnlyOnMixedDates ==
    (Called("_filter_pages_for_date") /\ warned) => Cardinality(DatesPresent) > 1

\* the fault of the call is met: nothing else ends the call before it
FaultRaised ==
    /\ call.fault # None
    /\ \/ call.fault.at = "connect"
       \/ call.fault.k <= FirstIllegal(Requests(call.pages, call.path, call.rename))

\* the place in the list of the page whose upload fails: 0 when the
\* connection or the change of directory fails
FailingPage ==
    IF call.fault.at = "connect" THEN 0
    ELSE call.fault.k - (IF call.path = None THEN 0 ELSE 1)

\* C28: send_pages_ftp propagates no error of ftplib.all_errors raised while
\* connecting, changing directory, opening a page file or storing it: it
\* returns normally, every page before the failing one has been uploaded
\* and none from the failing one on.
C28_FtpErrorsAreCaught ==
    (Called("send_pages_ftp") /\ FaultRaised /\ call.fault.error \in FtpAllErrors)
    => /\ result = Returned
       /\ Len(Uploads) = (IF FailingPage = 0 THEN 0 ELSE FailingPage - 1)
       /\ \A k \in DOMAIN Uploads : Uploads[k].local = call.pages[k].path

\* the second of two pages failed with an OSError after the change of
\* directory and the upload of the first
C28_Witness ==
    /\ Called("send_pages_ftp")
    /\ call.fault = Fault("request", 3, "OSError")
    /\ call.path # None
    /\ Len(call.pages) = 2
    /\ result = Returned
    /\ Len(server.received) = 2
    /\ Uploads = <<server.received[2]>>
    /\ server.received[2].local = call.pages[1].path

\* C29: directory_pdfs(path) returns a Page for every entry directly in an
\* existing directory whose name the grammar takes with kind pdf, those
\* whose extension is written in capitals or mixed case included.
C29_EveryAcceptablePdfListed ==
    (Called("directory_pdfs") /\ call.path \in fs) =>
        /\ result.kind = "list"
        /\ \A f \in files :
              (f.dir = call.path /\ AcceptablePdf(f)) =>
                  \E k \in DOMAIN result.value : result.value[k] = Page(f)

\* the four spellings of a date: ddmmyy, ddmmyyyy, dd-mm-yy, dd-mm-yyyy
Spellings(dt) ==
    {FormatInt(dt.day, 2) \o sep \o FormatInt(dt.month, 2) \o sep \o year :
        sep \in {<<>>, <<"-">>},
        year \in {FormatInt(dt.year % 100, 2), FormatInt(dt.year, 4)}}

\* dates of the years 2000 to 2068, the last day of them among them
SpelledDates == {Date(2016, 5, 4), Date(2016, 5, 5), Date(2015, 6, 4), Date(2068, 12, 31)}

\* the names n1 and n2 are the same but for their date tokens, which spell dt
Respelled(n1, n2, dt) ==
    \E m \in {RegexMatch(n1)} :
        /\ m # None
        /\ m.date \in Spellings(dt)
        /\ \E u \in Spellings(dt) : \E i \in 0..(Len(n1) - Len(m.date)) :
              /\ SubSeq(n1, i + 1, i + Len(m.date)) = m.date
              /\ n2 = SubSeq(n1, 1, i) \o u \o SubSeq(n1, i + Len(m.date) + 1, Len(n1))

\* C30: the four spellings of one date of the years 2000..2068 parse to that
\* date, so that file names apart only in the spelling of the date token give
\* Pages that compare equal; and the date token of every match has 6 or 8
\* digits once its hyphens are removed, so that the choice of the date format
\* in Page.__init__ is never left undefined.
C30_SpellingsOfOneDateAgree ==
    /\ \A a \in {pa, pb, pc}, b \in {pa, pb, pc} :
          (Built(a) /\ Built(b)) =>
              \A dt \in SpelledDates :
                  Respelled(a.path.name, b.path.name, dt) =>
                      /\ a.date = dt /\ b.date = dt
                      /\ Eq(a, b) /\ ~Ne(a, b)
    /\ \A k \in DOMAIN DateAlternatives :
          Len(Remove(DateAlternatives[k], "-")) \in {6, 8}
    /\ \A p \in {pa, pb, pc} : p # None => p.kind = "Page"

\* the shortest and the longest spelling of 31 December 2068 have given
\* equal Pages, and ddmmyyyy has given one of 4 May 2016
C30_Witness ==
    /\ Built(pa) /\ Built(pb) /\ Built(pc)
    /\ RegexMatch(pa.path.name).date = <<"3", "1", "1", "2", "6", "8">>
    /\ RegexMatch(pb.path.name).date = <<"3", "1", "-", "1", "2", "-", "2", "0", "6", "8">>
    /\ Respelled(pa.path.name, pb.path.name, Date(2068, 12, 31))
    /\ pa.date = Date(2068, 12, 31) /\ Eq(pa, pb)
    /\ RegexMatch(pc.path.name).date = <<"0", "4", "0", "5", "2", "0", "1", "6">>
    /\ pc.date = Date(2016, 5, 4)

====
